---- MODULE Spec2Model ----
(***************************************************************************)
(* A model of depthai_demo.py: the module start-up checks, the Demo        *)
(* object (setup / run / loop / stop), the report file it appends to, and  *)
(* the Qt front end (Worker, App) that runs the shared Demo instance on a  *)
(* thread pool.  The SDK objects (device, queues, managers) are modelled   *)
(* by what the demo observes of them.                                      *)
(***************************************************************************)
EXTENDS Integers, Sequences, FiniteSets, TLC

\* ------------------------------------------------------------------ bounds
MaxIter == 4        \* polling-loop iterations explored per run
MaxQueue == 2       \* messages the device leaves in one SDK queue
MaxLogs == 2        \* system-log entries the device emits during one run
MaxRuns == 2        \* process launches appending to one report file
MaxWorkers == 2     \* Worker objects App.start creates
TickStep == 5       \* seconds between two looks at the clock of App.stop
MaxCalls == 2       \* setCallbacks calls made by a caller of the Demo class
MaxUpdates == 1     \* App.updateArg calls made from the GUI
MaxMoves == 3       \* user moves of a trackbar

\* --------------------------------------------------------- program values
None == -100000     \* Python's None, kept apart from every tuning value
Window == 10        \* seconds App.stop polls for the device

Cams == {"left", "right", "color"}
Devices == {1, 2}                           \* MxIds of the attached devices
Threads == 0 .. MaxWorkers                  \* 0: main thread, 1..: pool workers
Workers == 1 .. MaxWorkers
QueueNames == {"sbb", "nn", "nnInput", "systemLogger"}

\* vars(dai.MedianFilter) entries named KERNEL_* or MEDIAN_*, in class order
MedianFiltersWithout7x7 == <<"MEDIAN_OFF", "KERNEL_3x3", "KERNEL_5x5">>
MedianFilterList == <<"MEDIAN_OFF", "KERNEL_3x3", "KERNEL_5x5", "KERNEL_7x7">>

ControlKeys == {"t", "g", "y", "h", "u", "j", "i", "k", "o", "l", "p", ";"}
Keys == ControlKeys \cup {"q", "m", "x", "none"}    \* "none": waitKey gave -1
CallbackNames == {"onNewFrame", "onShowFrame", "onNn", "onReport", "onSetup",
                  "onTeardown", "onIter", "shouldRun"}
WorkerCallbacks == {"shouldRun", "onShowFrame", "onSetup"}   \* line 516
\* the preview windows that can carry the 'Disparity confidence' trackbar
\* (line 386), and the positions explored: DISP_CONF_MIN, the threshold
\* given on the command line, and two others
TrackbarWindows == {"disparityColor", "disparity", "depth"}
TrackbarMin == 0
TrackbarDefault == 245
TrackbarValues == {TrackbarMin, 100, TrackbarDefault, 255}
\* arguments the GUI can update (lines 619-649) that Demo.setup hands on
GuiArgs == {"rgbResolution", "monoResolution", "openvinoVersion", "rgbFps"}
\* the value the GUI can change each one to
GuiValue ==
    [rgbResolution |-> 2160, monoResolution |-> 720, openvinoVersion |-> 20214,
     rgbFps |-> 60]

VARIABLES
    args,           \* confManager.args and the ConfigManager properties read here
    fs,             \* paths that exist on disk (video files)
    mainPc,         \* module start-up: "start", "loaded", "ValueError"
    demoMade,       \* Demo objects constructed in this process
    displayFrames,  \* Demo._displayFrames
    pc,             \* per thread: where it is in Worker.run / Demo.run_all
    pendingExc,     \* per thread: exception propagating through run's finally
    raised,         \* per thread: exception that left run_all
    device,         \* Demo._device: MxId of the device last opened, 0 if unset
    deviceOpen,     \* whether Demo._device is open
    deviceOpens,    \* how many times dai.Device(...) was entered
    available,      \* MxIds dai.Device.getAllAvailableDevices() reports
    closedDevs,     \* MxIds closed by Demo.stop and not yet listed again
    encManager,     \* Demo._encManager: "undef","None","created","queues","closed"
    encParsed,      \* EncodingManager.parseQueues calls
    outQ,           \* per queue name: "undef", "None", "open", "closed"
    queued,         \* per queue name: messages waiting on the host side
    medianIdx,      \* position of the cycle: index next() returns next, 0 if unset
    depthMedian,    \* pm._depthConfig.getMedianFilter()
    startMedian,    \* the median filter when the rotation was positioned
    mPresses,       \* 'm' presses since the rotation was positioned
    cameraConfig,   \* Demo._cameraConfig: <<>> while the attribute is unset
    pushes,         \* per camera: how many dictionaries were pushed, and the last
    key,            \* the last cv2.waitKey result
    waitKeys,       \* cv2.waitKey calls made in this run
    iter,           \* loop iterations started in this run
    reportOpen,     \* Demo._reportFile is open
    reportFile,     \* the lines of the report file on disk
    onReportCalls,  \* onReport invocations in this process
    logsRead,       \* system-log entries taken from the queue in this process
    runs,           \* process launches so far
    shouldRun,      \* Demo.shouldRun: 0 the constructor's default, w: Worker w's
    running,        \* per worker: Worker.running
    worker,         \* App.worker: index of the latest Worker, 0 if none
    appPc,          \* the GUI thread: where it is in App.start / stop / restartDemo
    appExc,         \* exception that left the GUI thread's handler
    appInitialized, \* App.appInitialized
    stopCont,       \* what follows the running App.stop: "restart" or "exit"
    currentMxid,    \* current_mxid read by App.stop
    stoppedWorker,  \* the worker the running App.stop emitted exitSignal to
    elapsed,        \* time.time() - start in App.stop's polling loop
    callbacks,      \* per Demo callback: 0 the constructor's, n the n-th setCallbacks call's
    cbCalls,        \* per setCallbacks call: the names passed with a value
    lifecycle,      \* per thread: its callbacks and steps of Demo.run / stop, in order
    rgbRes,         \* Demo._rgbRes, None before the Demo is constructed
    monoRes,        \* Demo._monoRes
    openvinoVersion, \* Demo._openvinoVersion
    built,          \* per GUI argument: what the last Demo.setup passed to the SDK
    guiSet,         \* per argument: the value App.updateArg last set, None if none
    guiUpdates,     \* App.updateArg calls so far
    guiSetAt,       \* per argument: App.worker when App.updateArg last set it
    tbWindows,      \* the windows of one trackbar name, in the order of instances[name]
    tbInstances,    \* Trackbars.instances[name], per window
    tbPos,          \* per window: the position the trackbar shows
    tbPassed,       \* the update callback's last argument, None if never called
    tbCalls,        \* calls of the update callback so far
    tbMoves,        \* user moves of the trackbar so far
    tbMoved,        \* the value the user last moved the trackbar to
    posEcho,        \* does setTrackbarPos call the callback: "unknown", "echo", "silent"
    observed        \* the device current_mxid was in the list when stop broke out

demoVars == <<displayFrames, device, deviceOpen, deviceOpens, encManager, encParsed,
              outQ, medianIdx, depthMedian, startMedian, mPresses, cameraConfig,
              pushes, key, waitKeys, iter, reportOpen, onReportCalls, logsRead,
              shouldRun, callbacks, cbCalls, lifecycle, rgbRes, monoRes,
               openvinoVersion, built, tbWindows, tbInstances, tbPos,
               tbPassed, tbCalls, tbMoves, tbMoved, posEcho>>
appVars == <<running, worker, appPc, appExc, appInitialized, stopCont, currentMxid,
             stoppedWorker, elapsed, observed, guiSet, guiUpdates, guiSetAt>>
vars == <<args, fs, mainPc, demoMade, pc, pendingExc, raised, available, closedDevs,
          queued, reportFile, runs, demoVars, appVars>>

\* ------------------------------------------------------------ pure helpers
Left(a, b) == a
Min(a, b) == IF a < b THEN a ELSE b
Max(a, b) == IF a > b THEN a ELSE b

\* downloadYTVideo: the path of the downloaded file replaces the URL
downloadYTVideo(url) == "videos/v.mp4"

\* lines 29-30: args.video after the https replacement
ResolveVideo(video) == IF video = "https://yt/v" THEN downloadYTVideo(video) ELSE video

PathExistsSkipped(path, files) == TRUE
\* line 32: Path(args.video).exists()
PathExists(path, files) == path \in files

\* the six command-line tuning values as the dictionary of lines 224-231
TuningOf(a) ==
    [exposure |-> a.cameraExposure, sensitivity |-> a.cameraSensitivity,
     saturation |-> a.cameraSaturation, contrast |-> a.cameraContrast,
     brightness |-> a.cameraBrightness, sharpness |-> a.cameraSharpness]

\* line 233: any(self._cameraConfig.values()), Python truthiness
AnyValue(cfg) == \E k \in DOMAIN cfg : cfg[k] # None /\ cfg[k] # 0

CameraEnabled(a, c) ==
    IF c = "left" THEN a.leftCameraEnabled
    ELSE IF c = "right" THEN a.rightCameraEnabled
    ELSE a.rgbCameraEnabled

\* lines 396-402: the whole dictionary goes to every enabled camera
updateCameraConfigs(p, cfg, a) ==
    [c \in Cams |-> IF CameraEnabled(a, c)
                    THEN [n |-> p[c].n + 1, last |-> cfg]
                    ELSE p[c]]

\* lines 347-378: the dictionary after a control key
KeyUpdate(cfg, k) ==
    LET e == cfg.exposure
        s == cfg.sensitivity
        fillS == IF s = None THEN 800 ELSE s
        fillE == IF e = None THEN 10000 ELSE e
        up(v, hi) == IF v = None THEN 0 ELSE Min(v + 1, hi)
        down(v, lo) == IF v = None THEN 0 ELSE Max(v - 1, lo)
    IN  CASE k = "t" -> [cfg EXCEPT !.exposure = IF e = None THEN 10000
                                                  ELSE IF e = 1 THEN 500
                                                  ELSE Min(e + 500, 33000),
                                    !.sensitivity = fillS]
          [] k = "g" -> [cfg EXCEPT !.exposure = IF e = None THEN 10000
                                                  ELSE Max(e - 500, 1),
                                    !.sensitivity = fillS]
          [] k = "y" -> [cfg EXCEPT !.sensitivity = IF s = None THEN 800
                                                     ELSE Min(s + 50, 1600),
                                    !.exposure = fillE]
          [] k = "h" -> [cfg EXCEPT !.sensitivity = IF s = None THEN 800
                                                     ELSE Max(s - 50, 100),
                                    !.exposure = fillE]
          [] k = "u" -> [cfg EXCEPT !.saturation = up(cfg.saturation, 10)]
          [] k = "j" -> [cfg EXCEPT !.saturation = down(cfg.saturation, -10)]
          [] k = "i" -> [cfg EXCEPT !.contrast = up(cfg.contrast, 10)]
          [] k = "k" -> [cfg EXCEPT !.contrast = down(cfg.contrast, -10)]
          [] k = "o" -> [cfg EXCEPT !.brightness = up(cfg.brightness, 10)]
          [] k = "l" -> [cfg EXCEPT !.brightness = down(cfg.brightness, -10)]
          [] k = "p" -> [cfg EXCEPT !.sharpness = up(cfg.sharpness, 4)]
          [] k = ";" -> [cfg EXCEPT !.sharpness = down(cfg.sharpness, 0)]
          [] OTHER -> cfg

\* line 182: whether setup creates the EncodingManager
EncoderWanted(encode) == Cardinality(encode) > 1

\* itertools.cycle: the index next() returns after index i
CycleNoWrap(i) == Min(i + 1, Len(MedianFilterList))
CycleNext(i) == (i % Len(MedianFilterList)) + 1

\* ------------------------------------------------------------- report file
MemoryColumns == <<"ddrUsed", "ddrTotal", "cmxUsed", "cmxTotal", "leonCssUsed",
                   "leonCssTotal", "leonMssUsed", "leonMssTotal">>
TempColumns == <<"tempAvg", "tempCss", "tempMss", "tempUpa0", "tempUpa1">>
CpuColumns == <<"cpuCssAvg", "cpuMssAvg">>

\* lines 455-482: the keys of data, in insertion order
DataKeys(report) ==
    (IF "memory" \in report THEN MemoryColumns ELSE <<>>)
    \o (IF "temp" \in report THEN TempColumns ELSE <<>>)
    \o (IF "cpu" \in report THEN CpuColumns ELSE <<>>)

\* bytes of one printed line: the joined cells, the commas, the newline
LineBytes(line) ==
    LET n == Len(line.cells) IN (IF n = 0 THEN 0 ELSE 2 * n - 1) + 1

RECURSIVE FileBytes(_)
FileBytes(f) == IF f = <<>> THEN 0 ELSE LineBytes(Head(f)) + FileBytes(Tail(f))

HeaderAlways(f) == TRUE
\* line 484: self._reportFile.tell() == 0 on a file opened for appending
HeaderDue(f) == FileBytes(f) = 0

\* lines 484-487: one log entry written to the report file
printSysInfoFile(f, report) ==
    LET keys == DataKeys(report)
        withHeader == IF HeaderDue(f)
                      THEN Append(f, [kind |-> "header", cells |-> keys])
                      ELSE f
    IN  Append(withHeader, [kind |-> "row", cells |-> keys])

\* lines 332-334: every log of tryGetAll goes through _printSysInfo
RECURSIVE WriteLogs(_, _, _)
WriteLogs(f, n, report) ==
    IF n = 0 THEN f ELSE WriteLogs(printSysInfoFile(f, report), n - 1, report)

\* ------------------------------------------------------------ initial state
BaseArgs ==
    [useCamera |-> TRUE, video |-> "none", sync |-> FALSE, useNN |-> FALSE,
     spatialBoundingBox |-> FALSE, encode |-> {}, report |-> {},
     reportFile |-> FALSE, cameraControlls |-> FALSE,
     leftCameraEnabled |-> FALSE, rightCameraEnabled |-> FALSE,
     rgbCameraEnabled |-> TRUE,
     cameraExposure |-> None, cameraSensitivity |-> None,
     cameraSaturation |-> None, cameraContrast |-> None,
     cameraBrightness |-> None, cameraSharpness |-> None,
     medianFilter |-> "KERNEL_7x7", deviceId |-> 0,
     rgbResolution |-> 1080, monoResolution |-> 400, openvinoVersion |-> None,
     rgbFps |-> 30]

\* lines 71-72: ConfigManager.getRgbResolution / getMonoResolution give the
\* SensorResolution member for the argument (by its number in the enum)
getRgbResolution(a) == IF a.rgbResolution = 2160 THEN 1 ELSE 0
getMonoResolution(a) == IF a.monoResolution = 720 THEN 0 ELSE 2

\* lines 73-75: None, or the dai.OpenVINO.Version member VERSION_<argument>
OpenVINOVersionOf(a) ==
    IF a.openvinoVersion = None THEN None ELSE (a.openvinoVersion % 10) + 1

\* lines 114, 150-163: what setup passes to PipelineManager and the cameras
SetupPasses(a, rgb, mono, ov) ==
    [rgbResolution |-> rgb, monoResolution |-> mono, openvinoVersion |-> ov,
     rgbFps |-> a.rgbFps]

\* what setup would pass if it took every value from the arguments as they
\* are now
PassesFor(a) ==
    SetupPasses(a, getRgbResolution(a), getMonoResolution(a), OpenVINOVersionOf(a))

NotBuilt == [n \in GuiArgs |-> None]

NoTuning == TuningOf(BaseArgs)
NoQueues == [q \in QueueNames |-> "undef"]

\* the state of a process that has not yet run the module body
FreshProcess ==
    /\ mainPc = "start"
    /\ demoMade = 0
    /\ pc = [t \in Threads |-> "idle"]
    /\ pendingExc = [t \in Threads |-> "none"]
    /\ raised = [t \in Threads |-> "none"]
    /\ device = 0
    /\ deviceOpen = FALSE
    /\ deviceOpens = 0
    /\ encManager = "undef"
    /\ encParsed = 0
    /\ outQ = NoQueues
    /\ queued = [q \in QueueNames |-> 0]
    /\ medianIdx = 0
    /\ depthMedian = "KERNEL_7x7"
    /\ startMedian = "none"
    /\ mPresses = 0
    /\ cameraConfig = <<>>
    /\ pushes = [c \in Cams |-> [n |-> 0, last |-> NoTuning]]
    /\ key = "none"
    /\ waitKeys = 0
    /\ iter = 0
    /\ reportOpen = FALSE
    /\ onReportCalls = 0
    /\ logsRead = 0
    /\ shouldRun = 0
    /\ running = [w \in Workers |-> FALSE]
    /\ worker = 0
    /\ appPc = "none"
    /\ appExc = "none"
    /\ appInitialized = FALSE
    /\ stopCont = "none"
    /\ currentMxid = 0
    /\ stoppedWorker = 0
    /\ elapsed = 0
    /\ callbacks = [n \in CallbackNames |-> 0]
    /\ cbCalls = <<>>
    /\ lifecycle = [t \in Threads |-> <<>>]
    /\ rgbRes = None
    /\ monoRes = None
    /\ openvinoVersion = None
    /\ built = NotBuilt
    /\ guiSet = [n \in GuiArgs |-> None]
    /\ guiUpdates = 0
    /\ guiSetAt = [n \in GuiArgs |-> 0]
    /\ tbWindows = <<>>
    /\ tbInstances = [w \in TrackbarWindows |-> None]
    /\ tbPos = [w \in TrackbarWindows |-> None]
    /\ tbPassed = None
    /\ tbCalls = 0
    /\ tbMoves = 0
    /\ tbMoved = None
    /\ posEcho = "unknown"
    /\ observed = FALSE

\* a launch: the command line, the files on disk, the displayFrames argument
\* given to Demo(...), and the devices attached
InitWith(launches, availSet) ==
    /\ \E l \in launches :
         /\ args = l.a
         /\ fs = l.f
         /\ displayFrames = l.d
    /\ available \in availSet
    /\ closedDevs = {}
    /\ reportFile = <<>>
    /\ runs = 1
    /\ FreshProcess

\* -------------------------------------------------------- module start-up
\* lines 26-33: the video path is resolved and checked before anything else
Startup ==
    /\ mainPc = "start"
    /\ IF args.useCamera
       THEN /\ mainPc' = "loaded"
            /\ args' = args
       ELSE LET v == ResolveVideo(args.video)
            IN  /\ args' = [args EXCEPT !.video = v]
                /\ mainPc' = IF PathExists(v, fs) THEN "loaded" ELSE "ValueError"
    /\ UNCHANGED <<fs, demoMade, pc, pendingExc, raised, available, closedDevs, queued,
                   reportFile, runs, demoVars, appVars>>

\* lines 57-85, 65-67: a Demo is constructed and run_all is entered on the
\* main thread
DemoMain ==
    /\ mainPc = "loaded"
    /\ demoMade = 0
    /\ appPc = "none"
    /\ demoMade' = 1
    /\ rgbRes' = getRgbResolution(args)
    /\ monoRes' = getMonoResolution(args)
    /\ openvinoVersion' = OpenVINOVersionOf(args)
    /\ pc' = [pc EXCEPT ![0] = "setup"]
    /\ UNCHANGED <<args, fs, mainPc, displayFrames, pendingExc, raised, device,
                   deviceOpen, deviceOpens, available, closedDevs, encManager,
                   encParsed, outQ, queued, medianIdx, depthMedian, startMedian,
                   mPresses, cameraConfig, pushes, key, waitKeys, iter, reportOpen,
                   reportFile, onReportCalls, logsRead, runs, shouldRun, callbacks,
                   cbCalls, lifecycle, built, tbWindows, tbInstances, tbPos, tbPassed,
                   tbCalls, tbMoves, tbMoved, posEcho, appVars>>

\* ---------------------------------------------------------------- Trackbars
\* a state of the trackbars of one name: inst is Trackbars.instances[name],
\* pos the displayed positions, passed and calls the update callback's last
\* argument and call count
RECURSIVE fn(_, _, _, _, _), fnOthers(_, _, _, _, _, _), setTrackbarPos(_, _, _, _, _)

\* lines 41-47: the callback OpenCV calls for the trackbar of a window
fn(st, wins, window, value, echo) ==
    LET st1 == IF st.inst[window] # value
               THEN [st EXCEPT !.passed = value, !.calls = @ + 1]
               ELSE st
    IN  fnOthers(st1, wins, window, value, echo, 1)

\* lines 44-47: the for loop over instances[name].items(), from entry i on
fnOthers(st, wins, window, value, echo, i) ==
    IF i > Len(wins) THEN st
    ELSE IF wins[i] # window /\ st.inst[wins[i]] # value
         THEN fnOthers(setTrackbarPos([st EXCEPT !.inst[wins[i]] = value],
                                      wins, wins[i], value, echo),
                       wins, window, value, echo, i + 1)
         ELSE fnOthers(st, wins, window, value, echo, i + 1)

\* cv2.setTrackbarPos: the position is shown; a backend that reports the
\* change calls the window's callback
setTrackbarPos(st, wins, window, value, echo) ==
    IF st.pos[window] = value THEN st
    ELSE IF echo THEN fn([st EXCEPT !.pos[window] = value], wins, window, value, echo)
    ELSE [st EXCEPT !.pos[window] = value]

TrackbarState == [inst |-> tbInstances, pos |-> tbPos, passed |-> tbPassed, calls |-> tbCalls]

\* the OpenCV build in use has one of the two kinds of GUI backend
highguiBackend(kind) ==
    /\ posEcho = "unknown"
    /\ posEcho' = kind
    /\ UNCHANGED <<args, fs, mainPc, demoMade, displayFrames, pc, pendingExc, raised,
                   device, deviceOpen, deviceOpens, available, closedDevs, encManager,
                   encParsed, outQ, queued, medianIdx, depthMedian, startMedian,
                   mPresses, cameraConfig, pushes, key, waitKeys, iter, reportOpen,
                   reportFile, onReportCalls, logsRead, runs, shouldRun, callbacks,
                   cbCalls, lifecycle, rgbRes, monoRes, openvinoVersion, built,
                   tbWindows, tbInstances, tbPos, tbPassed, tbCalls, tbMoves, tbMoved,
                   appVars>>

\* lines 39-51: Trackbars.createTrackbar for one more window, as
\* _createQueueCallback does for each depth preview before the loop starts
createTrackbar(window) ==
    /\ posEcho # "unknown"
    /\ tbMoves = 0
    /\ \A i \in DOMAIN tbWindows : tbWindows[i] # window
    /\ LET wins == Append(tbWindows, window)
           created == [TrackbarState EXCEPT !.pos[window] = TrackbarMin,
                                            !.inst[window] = TrackbarDefault]
           st == setTrackbarPos(created, wins, window, TrackbarDefault, posEcho = "echo")
       IN  /\ tbWindows' = wins
           /\ tbInstances' = st.inst
           /\ tbPos' = st.pos
           /\ tbPassed' = st.passed
           /\ tbCalls' = st.calls
    /\ UNCHANGED <<args, fs, mainPc, demoMade, displayFrames, pc, pendingExc, raised,
                   device, deviceOpen, deviceOpens, available, closedDevs, encManager,
                   encParsed, outQ, queued, medianIdx, depthMedian, startMedian,
                   mPresses, cameraConfig, pushes, key, waitKeys, iter, reportOpen,
                   reportFile, onReportCalls, logsRead, runs, shouldRun, callbacks,
                   cbCalls, lifecycle, rgbRes, monoRes, openvinoVersion, built,
                   tbMoves, tbMoved, posEcho, appVars>>

\* the user moves the trackbar of a window to another value and OpenCV
\* calls fn for it
userMove(window, value) ==
    /\ tbMoves < MaxMoves
    /\ \E i \in DOMAIN tbWindows : tbWindows[i] = window
    /\ value # tbPos[window]
    /\ LET st == fn([TrackbarState EXCEPT !.pos[window] = value],
                    tbWindows, window, value, posEcho = "echo")
       IN  /\ tbInstances' = st.inst
           /\ tbPos' = st.pos
           /\ tbPassed' = st.passed
           /\ tbCalls' = st.calls
    /\ tbMoves' = tbMoves + 1
    /\ tbMoved' = value
    /\ UNCHANGED <<args, fs, mainPc, demoMade, displayFrames, pc, pendingExc, raised,
                   device, deviceOpen, deviceOpens, available, closedDevs, encManager,
                   encParsed, outQ, queued, medianIdx, depthMedian, startMedian,
                   mPresses, cameraConfig, pushes, key, waitKeys, iter, reportOpen,
                   reportFile, onReportCalls, logsRead, runs, shouldRun, callbacks,
                   cbCalls, lifecycle, rgbRes, monoRes, openvinoVersion, built,
                   tbWindows, posEcho, appVars>>

\* ------------------------------------------------------- Demo.setCallbacks
setCallbacksOverwriting(cb, passed, h) ==
    [n \in CallbackNames |-> IF n \in passed THEN h ELSE None]
\* lines 87-103: each callback passed with a value other than None is
\* replaced by it (h), the others stay
setCallbacks(cb, passed, h) ==
    [n \in CallbackNames |-> IF n \in passed THEN h ELSE cb[n]]

\* the keyword sets a caller passes: none, one or two callbacks, the three
\* of Worker.run, or all eight
PassedChoices ==
    {p \in SUBSET CallbackNames : Cardinality(p) <= 2}
        \cup {WorkerCallbacks, CallbackNames}

\* a caller of the Demo class registers callbacks on the constructed object
callSetCallbacks(passed) ==
    /\ demoMade = 1
    /\ Len(cbCalls) < MaxCalls
    /\ callbacks' = setCallbacks(callbacks, passed, Len(cbCalls) + 1)
    /\ cbCalls' = Append(cbCalls, passed)
    /\ UNCHANGED <<args, fs, mainPc, demoMade, displayFrames, pc, pendingExc, raised,
                   device, deviceOpen, deviceOpens, available, closedDevs, encManager,
                   encParsed, outQ, queued, medianIdx, depthMedian, startMedian,
                   mPresses, cameraConfig, pushes, key, waitKeys, iter, reportOpen,
                   reportFile, onReportCalls, logsRead, runs, shouldRun, lifecycle,
                   rgbRes, monoRes, openvinoVersion, built, tbWindows, tbInstances,
                   tbPos, tbPassed, tbCalls, tbMoves, tbMoved, posEcho, appVars>>

\* ------------------------------------------------------------- Demo.setup
\* line 109: getDeviceInfo(deviceId) gives the named device, or one of the
\* available devices when none is named (deviceId 0)
DeviceChoices(deviceId, listed) ==
    IF deviceId = 0 THEN listed ELSE listed \cap {deviceId}

\* lines 106-202
setup(t) ==
    /\ pc[t] = "setup"
    /\ IF DeviceChoices(args.deviceId, available) = {}
       THEN \* getDeviceInfo finds no device: setup raises, run is never entered
            /\ pc' = [pc EXCEPT ![t] = "done"]
            /\ raised' = [raised EXCEPT ![t] = "RuntimeError"]
            /\ UNCHANGED <<available, device, deviceOpen, deviceOpens, encManager,
                           depthMedian, reportOpen, built>>
       ELSE \E d \in DeviceChoices(args.deviceId, available) :
            /\ reportOpen' = (reportOpen \/ args.reportFile)
            /\ built' = SetupPasses(args, rgbRes, monoRes, openvinoVersion)
            /\ device' = d
            /\ deviceOpen' = TRUE
            /\ deviceOpens' = deviceOpens + 1
            /\ available' = available \ {d}
            /\ depthMedian' = args.medianFilter
            /\ encManager' = IF args.useCamera \/ args.sync
                             THEN IF EncoderWanted(args.encode) THEN "created" ELSE "None"
                             ELSE encManager
            /\ pc' = [pc EXCEPT ![t] = "run"]
            /\ raised' = raised
    /\ UNCHANGED <<args, fs, mainPc, demoMade, displayFrames, pendingExc, closedDevs,
                   encParsed, outQ, queued, medianIdx, startMedian, mPresses,
                   cameraConfig, pushes, key, waitKeys, iter, reportFile,
                   onReportCalls, logsRead, runs, shouldRun, callbacks, cbCalls,
                   lifecycle, rgbRes, monoRes, openvinoVersion, tbWindows, tbInstances,
                   tbPos, tbPassed, tbCalls, tbMoves, tbMoved, posEcho, appVars>>

\* --------------------------------------------------------------- Demo.run
\* lines 204-213: pipeline started, queues created, the cycle created
runStart(t) ==
    /\ pc[t] = "run"
    /\ outQ' = [outQ EXCEPT
                  !["nn"] = IF args.useNN THEN "open" ELSE @,
                  !["sbb"] = IF args.useNN /\ args.spatialBoundingBox
                             THEN "open" ELSE "None",
                  !["systemLogger"] = IF args.report # {} THEN "open" ELSE "None"]
    /\ queued' = [q \in QueueNames |-> 0]
    /\ medianIdx' = 1
    /\ pc' = [pc EXCEPT ![t] = "medianSeek"]
    /\ UNCHANGED <<args, fs, mainPc, demoMade, displayFrames, pendingExc, raised,
                   device, deviceOpen, deviceOpens, available, closedDevs, encManager,
                   encParsed, depthMedian, startMedian, mPresses, cameraConfig, pushes,
                   key, waitKeys, iter, reportOpen, reportFile, onReportCalls,
                   logsRead, runs, shouldRun, callbacks, cbCalls, lifecycle, rgbRes,
                   monoRes, openvinoVersion, built, tbWindows, tbInstances, tbPos,
                   tbPassed, tbCalls, tbMoves, tbMoved, posEcho, appVars>>

\* lines 214-217: one turn of the for loop over the cycle
medianSeek(t) ==
    /\ pc[t] = "medianSeek"
    /\ medianIdx' = CycleNext(medianIdx)
    /\ IF MedianFilterList[medianIdx] = depthMedian
       THEN /\ pc' = [pc EXCEPT ![t] = "runPrepare"]
            /\ startMedian' = depthMedian
            /\ mPresses' = 0
       ELSE UNCHANGED <<pc, startMedian, mPresses>>
    /\ UNCHANGED <<args, fs, mainPc, demoMade, displayFrames, pendingExc, raised,
                   device, deviceOpen, deviceOpens, available, closedDevs, encManager,
                   encParsed, outQ, queued, depthMedian, cameraConfig, pushes, key,
                   waitKeys, iter, reportOpen, reportFile, onReportCalls, logsRead,
                   runs, shouldRun, callbacks, cbCalls, lifecycle, rgbRes, monoRes,
                   openvinoVersion, built, tbWindows, tbInstances, tbPos, tbPassed,
                   tbCalls, tbMoves, tbMoved, posEcho, appVars>>

\* lines 219-246: the tuning dictionary, the preview and encoder queues, onSetup
runPrepare(t) ==
    /\ pc[t] = "runPrepare"
    /\ IF args.useCamera
       THEN LET cfg == TuningOf(args)
            IN  /\ cameraConfig' = cfg
                /\ pushes' = IF AnyValue(cfg)
                             THEN updateCameraConfigs(pushes, cfg, args)
                             ELSE pushes
                /\ encManager' = IF encManager # "None" THEN "queues" ELSE encManager
                /\ outQ' = outQ
       ELSE /\ outQ' = IF args.sync THEN [outQ EXCEPT !["nnInput"] = "open"] ELSE outQ
            /\ UNCHANGED <<cameraConfig, pushes, encManager>>
    /\ iter' = 0
    /\ waitKeys' = 0
    /\ lifecycle' = [lifecycle EXCEPT ![t] = Append(@, "onSetup")]
    /\ IF shouldRun # 0 /\ ~args.useNN
       THEN \* Worker.onSetup reads instance._nnManager (line 548), which
            \* setup has not set: AttributeError before the try of line 248
            /\ pc' = [pc EXCEPT ![t] = "done"]
            /\ raised' = [raised EXCEPT ![t] = "AttributeError"]
       ELSE /\ pc' = [pc EXCEPT ![t] = "loop"]
            /\ raised' = raised
    /\ UNCHANGED <<args, fs, mainPc, demoMade, displayFrames, pendingExc, device,
                   deviceOpen, deviceOpens, available, closedDevs, encParsed, queued,
                   medianIdx, depthMedian, startMedian, mPresses, key, reportOpen,
                   reportFile, onReportCalls, logsRead, runs, shouldRun, callbacks,
                   cbCalls, rgbRes, monoRes, openvinoVersion, built, tbWindows,
                   tbInstances, tbPos, tbPassed, tbCalls, tbMoves, tbMoved, posEcho,
                   appVars>>

\* -------------------------------------------------------------- Demo.loop
\* Demo.shouldRun: the constructor's lambda, or Worker.shouldRun once
\* setCallbacks has replaced it
ShouldRunValue == IF shouldRun = 0 THEN TRUE ELSE running[shouldRun]

\* cv2.waitKey is only called when frames are displayed; without camera
\* controls line 344 skips the control keys, so "x" stands for them too
KeyChoices ==
    IF ~displayFrames THEN {"none"}
    ELSE IF args.cameraControlls THEN Keys
    ELSE Keys \ ControlKeys

\* lines 283-286, 311: the tryGet reads of the first half of an iteration
HeadReads(q) ==
    [q EXCEPT
       !["sbb"] = IF args.useCamera /\ outQ["sbb"] = "open" /\ @ > 0 THEN @ - 1 ELSE @,
       !["nn"] = IF args.useNN /\ @ > 0 THEN @ - 1 ELSE @]

\* line 315 is reached: an NN result arrived in video mode with sync
HostFrameWanted(q) == args.useNN /\ q["nn"] > 0 /\ ~args.useCamera /\ args.sync

\* lines 315-383: the iteration from self._hostOut.get() on; q is the queue
\* contents the first half has left, takeHost whether line 315 is executed,
\* log the thread's steps up to this iteration
loopTail(t, k, q, takeHost, log) ==
    LET logging == outQ["systemLogger"] = "open"
        nLogs == IF logging THEN q["systemLogger"] ELSE 0
        quit == displayFrames /\ k = "q"
        median == displayFrames /\ k = "m"
        ctl == displayFrames /\ args.cameraControlls /\ k \in ControlKeys
        crash == ctl /\ cameraConfig = <<>>
        cfg == IF ctl /\ ~crash THEN KeyUpdate(cameraConfig, k) ELSE cameraConfig
    IN  /\ queued' = [q EXCEPT !["nnInput"] = IF takeHost THEN @ - 1 ELSE @,
                               !["systemLogger"] = IF logging THEN 0 ELSE @]
        /\ logsRead' = logsRead + nLogs
        /\ reportFile' = IF args.reportFile
                         THEN WriteLogs(reportFile, nLogs, args.report)
                         ELSE reportFile
        /\ onReportCalls' = IF args.reportFile THEN onReportCalls + nLogs
                            ELSE onReportCalls
        /\ key' = IF displayFrames THEN k ELSE key
        /\ waitKeys' = IF displayFrames THEN waitKeys + 1 ELSE waitKeys
        /\ IF median
           THEN /\ depthMedian' = MedianFilterList[medianIdx]
                /\ medianIdx' = CycleNext(medianIdx)
                /\ mPresses' = mPresses + 1
           ELSE UNCHANGED <<depthMedian, medianIdx, mPresses>>
        /\ cameraConfig' = cfg
        /\ pushes' = IF ctl /\ ~crash THEN updateCameraConfigs(pushes, cfg, args)
                     ELSE pushes
        /\ pc' = [pc EXCEPT ![t] = IF quit \/ crash THEN "stop" ELSE "loop"]
        /\ pendingExc' = [pendingExc EXCEPT ![t] = IF crash THEN "AttributeError" ELSE @]
        /\ lifecycle' = [lifecycle EXCEPT
                           ![t] = IF quit THEN Append(log, "StopIteration")
                                  ELSE IF crash THEN Append(log, "AttributeError")
                                  ELSE log]

IterationWithoutOnIter(log) == log \o <<"shouldRun", "loop">>
\* lines 249-252: shouldRun has returned true, onIter is invoked and loop
\* is called
IterationBegun(log) == log \o <<"shouldRun", "onIter", "loop">>

\* lines 249-252 and 277-383: shouldRun is consulted, then one iteration runs
\* up to its end or up to the blocking read of line 315
loopIter(t) ==
    /\ pc[t] = "loop"
    /\ IF ~ShouldRunValue
       THEN /\ pc' = [pc EXCEPT ![t] = "stop"]
            /\ lifecycle' = [lifecycle EXCEPT ![t] = Append(@, "shouldRun")]
            /\ UNCHANGED <<iter, encParsed, queued, logsRead, reportFile,
                           onReportCalls, key, waitKeys, depthMedian, medianIdx, mPresses,
                           cameraConfig, pushes, pendingExc>>
       ELSE /\ iter < MaxIter
            /\ iter' = iter + 1
            /\ \E frameOk \in (IF args.useCamera THEN {TRUE} ELSE BOOLEAN) :
               IF ~args.useCamera /\ (~frameOk \/ ~args.useNN)
               THEN \* end of the video (StopIteration), or no _nnManager to
                    \* send the frame to (AttributeError)
                    /\ pc' = [pc EXCEPT ![t] = "stop"]
                    /\ pendingExc' = [pendingExc EXCEPT
                                        ![t] = IF frameOk THEN "AttributeError" ELSE @]
                    /\ lifecycle' = [lifecycle EXCEPT
                                       ![t] = Append(IterationBegun(@),
                                                     IF frameOk THEN "AttributeError"
                                                     ELSE "StopIteration")]
                    /\ UNCHANGED <<encParsed, queued, logsRead, reportFile,
                                   onReportCalls, key, waitKeys, depthMedian, medianIdx,
                                   mPresses, cameraConfig, pushes>>
               ELSE LET q1 == HeadReads(queued)
                        takeHost == HostFrameWanted(queued)
                    IN  /\ encParsed' = IF args.useCamera /\ encManager \notin {"None", "undef"}
                                        THEN encParsed + 1 ELSE encParsed
                        /\ IF takeHost /\ q1["nnInput"] = 0
                           THEN /\ pc' = [pc EXCEPT ![t] = "hostGet"]
                                /\ queued' = q1
                                /\ lifecycle' = [lifecycle EXCEPT ![t] = IterationBegun(@)]
                                /\ UNCHANGED <<logsRead, reportFile, onReportCalls,
                                               key, waitKeys, depthMedian, medianIdx, mPresses,
                                               cameraConfig, pushes, pendingExc>>
                           ELSE \E k \in KeyChoices :
                                  loopTail(t, k, q1, takeHost, IterationBegun(lifecycle[t]))
    /\ UNCHANGED <<args, fs, mainPc, demoMade, displayFrames, raised, device,
                   deviceOpen, deviceOpens, available, closedDevs, encManager, outQ,
                   startMedian, reportOpen, runs, shouldRun, callbacks, cbCalls,
                   rgbRes, monoRes, openvinoVersion, built, tbWindows, tbInstances,
                   tbPos, tbPassed, tbCalls, tbMoves, tbMoved, posEcho, appVars>>

\* line 315: self._hostOut.get() returns once the device has sent the frame
hostGetReturn(t) ==
    /\ pc[t] = "hostGet"
    /\ queued["nnInput"] > 0
    /\ \E k \in KeyChoices : loopTail(t, k, queued, TRUE, lifecycle[t])
    /\ UNCHANGED <<args, fs, mainPc, demoMade, displayFrames, raised, device,
                   deviceOpen, deviceOpens, available, closedDevs, encManager,
                   encParsed, outQ, startMedian, iter, reportOpen, runs, shouldRun,
                   callbacks, cbCalls, rgbRes, monoRes, openvinoVersion, built,
                   tbWindows, tbInstances, tbPos, tbPassed, tbCalls, tbMoves, tbMoved,
                   posEcho, appVars>>

\* -------------------------------------------------------------- Demo.stop
\* lines 258-260: the device is closed first
stopClose(t) ==
    /\ pc[t] = "stop"
    /\ deviceOpen' = FALSE
    /\ closedDevs' = IF deviceOpen THEN closedDevs \cup {device} ELSE closedDevs
    /\ lifecycle' = [lifecycle EXCEPT ![t] = Append(@, "close")]
    /\ pc' = [pc EXCEPT ![t] = "stopRest"]
    /\ UNCHANGED <<args, fs, mainPc, demoMade, displayFrames, pendingExc, raised,
                   device, deviceOpens, available, encManager, encParsed, outQ, queued,
                   medianIdx, depthMedian, startMedian, mPresses, cameraConfig, pushes,
                   key, waitKeys, iter, reportOpen, reportFile, onReportCalls,
                   logsRead, runs, shouldRun, callbacks, cbCalls, rgbRes, monoRes,
                   openvinoVersion, built, tbWindows, tbInstances, tbPos, tbPassed,
                   tbCalls, tbMoves, tbMoved, posEcho, appVars>>

\* lines 261-274, 253-256: files and queues closed, onTeardown, then run ends
\* normally or re-raises what the loop raised
stopRest(t) ==
    /\ pc[t] = "stopRest"
    /\ reportOpen' = FALSE
    /\ outQ' = [q \in QueueNames |-> IF outQ[q] = "open" THEN "closed" ELSE outQ[q]]
    /\ encManager' = IF args.useCamera /\ encManager \notin {"None", "undef"}
                     THEN "closed" ELSE encManager
    /\ pc' = [pc EXCEPT ![t] = "done"]
    /\ raised' = [raised EXCEPT ![t] = pendingExc[t]]
    /\ pendingExc' = [pendingExc EXCEPT ![t] = "none"]
    /\ lifecycle' = [lifecycle EXCEPT ![t] = Append(@, "onTeardown")]
    /\ UNCHANGED <<args, fs, mainPc, demoMade, displayFrames, device, deviceOpen,
                   deviceOpens, available, closedDevs, encParsed, queued, medianIdx,
                   depthMedian, startMedian, mPresses, cameraConfig, pushes, key,
                   waitKeys, iter, reportFile, onReportCalls, logsRead, runs,
                   shouldRun, callbacks, cbCalls, rgbRes, monoRes, openvinoVersion,
                   built, tbWindows, tbInstances, tbPos, tbPassed, tbCalls, tbMoves,
                   tbMoved, posEcho, appVars>>

\* ------------------------------------------------------------- the device
\* the device puts a message in a host-side output queue; the sbb and
\* nnInput queues are created with maxSize=1 (lines 210, 240), and so is the
\* network's output queue by NNetManager.createQueues (line 208)
deviceProduce(qn) ==
    /\ deviceOpen
    /\ outQ[qn] = "open"
    /\ queued[qn] < (IF qn \in {"sbb", "nnInput", "nn"} THEN 1 ELSE MaxQueue)
    /\ qn = "systemLogger" => logsRead + queued[qn] < MaxLogs
    /\ queued' = [queued EXCEPT ![qn] = @ + 1]
    /\ UNCHANGED <<args, fs, mainPc, demoMade, pc, pendingExc, raised, available,
                   closedDevs, reportFile, runs, demoVars, appVars>>

\* a closed device shows up again in getAllAvailableDevices (line 584)
deviceReappear(d) ==
    /\ d \in closedDevs
    /\ closedDevs' = closedDevs \ {d}
    /\ available' = available \cup {d}
    /\ UNCHANGED <<args, fs, mainPc, demoMade, pc, pendingExc, raised, queued,
                   reportFile, runs, demoVars, appVars>>

\* ------------------------------------------------------------ Worker, App
\* lines 553-560: App() constructs the shared Demo with displayFrames=False
AppInit ==
    /\ mainPc = "loaded"
    /\ demoMade = 0
    /\ appPc = "none"
    /\ demoMade' = 1
    /\ rgbRes' = getRgbResolution(args)
    /\ monoRes' = getMonoResolution(args)
    /\ openvinoVersion' = OpenVINOVersionOf(args)
    /\ displayFrames' = FALSE
    /\ appPc' = "created"
    /\ UNCHANGED <<args, fs, mainPc, pc, pendingExc, raised, device, deviceOpen,
                   deviceOpens, available, closedDevs, encManager, encParsed, outQ,
                   queued, medianIdx, depthMedian, startMedian, mPresses, cameraConfig,
                   pushes, key, waitKeys, iter, reportOpen, reportFile, onReportCalls,
                   logsRead, runs, shouldRun, running, worker, appExc, appInitialized,
                   stopCont, currentMxid, stoppedWorker, elapsed, callbacks, cbCalls,
                   lifecycle, built, guiSet, guiUpdates, guiSetAt, tbWindows,
                   tbInstances, tbPos, tbPassed, tbCalls, tbMoves, tbMoved, posEcho,
                   observed>>

\* lines 566-576: a new Worker is handed to the thread pool; the first call
\* then stays in startGui, a later one returns to the event loop
appStart ==
    /\ appPc = "created" \/ (appPc = "stopReturned" /\ stopCont = "restart")
    /\ worker < MaxWorkers
    /\ worker' = worker + 1
    /\ running' = [running EXCEPT ![worker + 1] = FALSE]
    /\ pc' = [pc EXCEPT ![worker + 1] = "queued"]
    /\ appInitialized' = TRUE
    /\ appPc' = "gui"
    /\ elapsed' = 0    \* stop's local clock is gone once stop has returned
    /\ UNCHANGED <<args, fs, mainPc, demoMade, pendingExc, raised, available,
                   closedDevs, queued, reportFile, runs, appExc, stopCont, currentMxid,
                   stoppedWorker, guiSet, guiUpdates, guiSetAt, observed, demoVars>>

\* lines 512-517: the pool runs the worker, which installs its callbacks on
\* the shared Demo and enters run_all
workerRun(w) ==
    /\ pc[w] = "queued"
    /\ running' = [running EXCEPT ![w] = TRUE]
    /\ shouldRun' = w
    /\ callbacks' = setCallbacks(callbacks, WorkerCallbacks, Len(cbCalls) + 1)
    /\ cbCalls' = Append(cbCalls, WorkerCallbacks)
    /\ pc' = [pc EXCEPT ![w] = "setup"]
    /\ UNCHANGED <<args, fs, mainPc, demoMade, displayFrames, pendingExc, raised,
                   device, deviceOpen, deviceOpens, available, closedDevs, encManager,
                   encParsed, outQ, queued, medianIdx, depthMedian, startMedian,
                   mPresses, cameraConfig, pushes, key, waitKeys, iter, reportOpen,
                   reportFile, onReportCalls, logsRead, runs, worker, appPc, appExc,
                   appInitialized, stopCont, currentMxid, stoppedWorker, elapsed,
                   lifecycle, rgbRes, monoRes, openvinoVersion, built, guiSet,
                   guiUpdates, guiSetAt, tbWindows, tbInstances, tbPos, tbPassed,
                   tbCalls, tbMoves, tbMoved, posEcho, observed>>

DeviceSeenAny(mxid, listed) == listed # {}
\* line 584: current_mxid is among the MxIds of the available devices
DeviceSeen(mxid, listed) == mxid \in listed

\* lines 578-580: App.stop, entered from restartDemo (cont = "restart") or
\* after startGui has returned (cont = "exit"): the MxId is read and the
\* exit signal emitted, which runs Worker.terminate (lines 519-522)
appStopBegin(cont) ==
    /\ appPc = "gui"
    /\ cont = "restart" => worker < MaxWorkers
    /\ stopCont' = cont
    /\ IF device = 0
       THEN \* self._demoInstance._device is not set yet
            /\ appPc' = "raised"
            /\ appExc' = "AttributeError"
            /\ UNCHANGED <<currentMxid, running, stoppedWorker, observed>>
       ELSE /\ currentMxid' = device
            /\ running' = [running EXCEPT ![worker] = FALSE]
            /\ stoppedWorker' = worker
            /\ observed' = FALSE
            /\ appPc' = "waitForDone"
            /\ appExc' = appExc
    /\ UNCHANGED <<args, fs, mainPc, demoMade, pc, pendingExc, raised, available,
                   closedDevs, queued, reportFile, runs, worker, appInitialized,
                   elapsed, guiSet, guiUpdates, guiSetAt, demoVars>>

\* lines 581-582: waitForDone(100) returns, the pool idle or not, and the
\* polling clock starts
appWaitForDone ==
    /\ appPc = "waitForDone"
    /\ appPc' = "poll"
    /\ elapsed' = 0
    /\ UNCHANGED <<args, fs, mainPc, demoMade, pc, pendingExc, raised, available,
                   closedDevs, queued, reportFile, runs, running, worker, appExc,
                   appInitialized, stopCont, currentMxid, stoppedWorker, guiSet,
                   guiUpdates, guiSetAt, observed, demoVars>>

\* time passes while App.stop polls
appTick ==
    /\ appPc = "poll"
    /\ elapsed < Window
    /\ elapsed' = elapsed + TickStep
    /\ UNCHANGED <<args, fs, mainPc, demoMade, pc, pendingExc, raised, available,
                   closedDevs, queued, reportFile, runs, running, worker, appPc,
                   appExc, appInitialized, stopCont, currentMxid, stoppedWorker,
                   guiSet, guiUpdates, guiSetAt, observed, demoVars>>

\* lines 583-585: inside the window the device is listed and stop returns
appPollFound ==
    /\ appPc = "poll"
    /\ elapsed < Window
    /\ DeviceSeen(currentMxid, available)
    /\ observed' = (currentMxid \in available)
    /\ appPc' = "stopReturned"
    /\ UNCHANGED <<args, fs, mainPc, demoMade, pc, pendingExc, raised, available,
                   closedDevs, queued, reportFile, runs, running, worker, appExc,
                   appInitialized, stopCont, currentMxid, stoppedWorker, elapsed,
                   guiSet, guiUpdates, guiSetAt, demoVars>>

\* lines 583, 586-587: the window ended without a break
appPollTimeout ==
    /\ appPc = "poll"
    /\ elapsed >= Window
    /\ appPc' = "raised"
    /\ appExc' = "RuntimeError"
    /\ UNCHANGED <<args, fs, mainPc, demoMade, pc, pendingExc, raised, available,
                   closedDevs, queued, reportFile, runs, running, worker,
                   appInitialized, stopCont, currentMxid, stoppedWorker, elapsed,
                   guiSet, guiUpdates, guiSetAt, observed, demoVars>>

\* lines 575-576: stop returned after startGui: SystemExit
appExit ==
    /\ appPc = "stopReturned"
    /\ stopCont = "exit"
    /\ appPc' = "exited"
    /\ elapsed' = 0
    /\ UNCHANGED <<args, fs, mainPc, demoMade, pc, pendingExc, raised, available,
                   closedDevs, queued, reportFile, runs, running, worker, appExc,
                   appInitialized, stopCont, currentMxid, stoppedWorker, guiSet,
                   guiUpdates, guiSetAt, observed, demoVars>>

\* lines 562-564, 619-649: a GUI setup update stores the new value in
\* confManager.args
appUpdateArg(n) ==
    /\ appPc = "gui"
    /\ guiUpdates < MaxUpdates
    /\ guiUpdates' = guiUpdates + 1
    /\ args' = [args EXCEPT ![n] = GuiValue[n]]
    /\ guiSet' = [guiSet EXCEPT ![n] = GuiValue[n]]
    /\ guiSetAt' = [guiSetAt EXCEPT ![n] = worker]
    /\ UNCHANGED <<fs, mainPc, demoMade, pc, pendingExc, raised, available, closedDevs,
                   queued, reportFile, runs, running, worker, appPc, appExc,
                   appInitialized, stopCont, currentMxid, stoppedWorker, elapsed,
                   observed, demoVars>>

AppNext ==
    \/ Startup
    \/ AppInit
    \/ appStart
    \/ \E w \in Workers : workerRun(w)
    \/ \E w \in Workers : setup(w)
    \/ \E w \in Workers : runStart(w)
    \/ \E w \in Workers : medianSeek(w)
    \/ \E w \in Workers : runPrepare(w)
    \/ \E w \in Workers : loopIter(w)
    \/ \E w \in Workers : stopClose(w)
    \/ \E w \in Workers : stopRest(w)
    \/ \E qn \in QueueNames : deviceProduce(qn)
    \/ \E d \in Devices : deviceReappear(d)
    \/ \E cont \in {"restart", "exit"} : appStopBegin(cont)
    \/ appWaitForDone
    \/ appTick
    \/ appPollFound
    \/ appPollTimeout
    \/ appExit

\* the process has ended (start-up raised, or run_all returned or raised)
\* and the demo is launched again; what is on disk stays
Relaunch(launches) ==
    /\ runs < MaxRuns
    /\ mainPc = "ValueError" \/ pc[0] = "done"
    /\ runs' = runs + 1
    /\ \E l \in launches :
         /\ args' = l.a
         /\ fs' = l.f
         /\ displayFrames' = l.d
    /\ mainPc' = "start"
    /\ demoMade' = 0
    /\ pc' = [t \in Threads |-> "idle"]
    /\ pendingExc' = [t \in Threads |-> "none"]
    /\ raised' = [t \in Threads |-> "none"]
    /\ device' = 0
    /\ deviceOpen' = FALSE
    /\ deviceOpens' = 0
    /\ encManager' = "undef"
    /\ encParsed' = 0
    /\ outQ' = NoQueues
    /\ queued' = [q \in QueueNames |-> 0]
    /\ medianIdx' = 0
    /\ depthMedian' = "KERNEL_7x7"
    /\ startMedian' = "none"
    /\ mPresses' = 0
    /\ cameraConfig' = <<>>
    /\ pushes' = [c \in Cams |-> [n |-> 0, last |-> NoTuning]]
    /\ key' = "none"
    /\ waitKeys' = 0
    /\ iter' = 0
    /\ reportOpen' = FALSE
    /\ onReportCalls' = 0
    /\ logsRead' = 0
    /\ shouldRun' = 0
    /\ running' = [w \in Workers |-> FALSE]
    /\ worker' = 0
    /\ appPc' = "none"
    /\ appExc' = "none"
    /\ appInitialized' = FALSE
    /\ stopCont' = "none"
    /\ currentMxid' = 0
    /\ stoppedWorker' = 0
    /\ elapsed' = 0
    /\ callbacks' = [n \in CallbackNames |-> 0]
    /\ cbCalls' = <<>>
    /\ lifecycle' = [t \in Threads |-> <<>>]
    /\ rgbRes' = None
    /\ monoRes' = None
    /\ openvinoVersion' = None
    /\ built' = NotBuilt
    /\ guiSet' = [n \in GuiArgs |-> None]
    /\ guiUpdates' = 0
    /\ guiSetAt' = [n \in GuiArgs |-> 0]
    /\ tbWindows' = <<>>
    /\ tbInstances' = [w \in TrackbarWindows |-> None]
    /\ tbPos' = [w \in TrackbarWindows |-> None]
    /\ tbPassed' = None
    /\ tbCalls' = 0
    /\ tbMoves' = 0
    /\ tbMoved' = None
    /\ posEcho' = "unknown"
    /\ observed' = FALSE
    /\ UNCHANGED <<available, closedDevs, reportFile>>

\* ------------------------------------------------- the demo run on its own
DemoNext ==
    \/ Startup
    \/ DemoMain
    \/ setup(0)
    \/ runStart(0)
    \/ medianSeek(0)
    \/ runPrepare(0)
    \/ loopIter(0)
    \/ hostGetReturn(0)
    \/ stopClose(0)
    \/ stopRest(0)
    \/ \E qn \in QueueNames : deviceProduce(qn)
    \/ \E d \in Devices : deviceReappear(d)

Paths == {"clip.mp4", "videos/v.mp4"}
EncodeChoices == {{}, {"color"}, {"color", "left"}}
Filters == {MedianFilterList[i] : i \in 1 .. Len(MedianFilterList)}

\* a video run that uses the neural network on a file that exists
VideoArgs == [BaseArgs EXCEPT !.useCamera = FALSE, !.video = "clip.mp4", !.useNN = TRUE]
VideoSyncLaunch == [a |-> [VideoArgs EXCEPT !.sync = TRUE], f |-> {"clip.mp4"}, d |-> TRUE]

\* launches over the input source, the video file, sync, encoding and filter
DemoLaunches ==
    {[a |-> [BaseArgs EXCEPT !.encode = e, !.medianFilter = m, !.sync = s],
      f |-> {}, d |-> TRUE] : e \in EncodeChoices, m \in Filters, s \in BOOLEAN}
    \cup {[a |-> [VideoArgs EXCEPT !.video = v, !.sync = s, !.encode = e], f |-> f,
           d |-> TRUE] :
          v \in {"clip.mp4", "https://yt/v"}, s \in BOOLEAN, e \in EncodeChoices,
          f \in SUBSET Paths}

Init == InitWith(DemoLaunches, {{1}})
Spec == Init /\ [][DemoNext]_vars

\* launches over everything that decides which SDK queues the loop reads
LoopLaunches ==
    {[a |-> [BaseArgs EXCEPT !.useCamera = cam,
                             !.video = IF cam THEN "none" ELSE "clip.mp4",
                             !.sync = s, !.useNN = nn, !.spatialBoundingBox = sbb,
                             !.report = r],
      f |-> {"clip.mp4"}, d |-> df] :
     cam \in BOOLEAN, s \in BOOLEAN, nn \in BOOLEAN, sbb \in BOOLEAN,
     r \in {{}, {"temp"}}, df \in BOOLEAN}

\* launches over the camera controls: the flag, the enabled cameras and
\* the tuning values given on the command line
CamChoices == {{}, {"color"}, {"left", "right"}, Cams}
TuningChoices ==
    {NoTuning,
     [exposure |-> 1, sensitivity |-> 100, saturation |-> -10, contrast |-> 10,
      brightness |-> 0, sharpness |-> 4],
     [exposure |-> 32800, sensitivity |-> 1550, saturation |-> 9, contrast |-> -9,
      brightness |-> None, sharpness |-> 0]}

WithTuning(a, tn) ==
    [a EXCEPT !.cameraExposure = tn.exposure, !.cameraSensitivity = tn.sensitivity,
              !.cameraSaturation = tn.saturation, !.cameraContrast = tn.contrast,
              !.cameraBrightness = tn.brightness, !.cameraSharpness = tn.sharpness]

WithCams(a, cs) ==
    [a EXCEPT !.leftCameraEnabled = "left" \in cs,
              !.rightCameraEnabled = "right" \in cs,
              !.rgbCameraEnabled = "color" \in cs]

KeyLaunches ==
    {[a |-> WithCams(WithTuning([BaseArgs EXCEPT !.cameraControlls = cc], tn), cs),
      f |-> {}, d |-> df] :
     cc \in BOOLEAN, tn \in TuningChoices, cs \in CamChoices, df \in BOOLEAN}
    \cup {[a |-> [VideoArgs EXCEPT !.cameraControlls = cc, !.sync = s],
           f |-> {"clip.mp4"}, d |-> TRUE] : cc \in BOOLEAN, s \in BOOLEAN}

InitKeys == InitWith(KeyLaunches, {{1}})
SpecKeys == InitKeys /\ [][DemoNext]_vars

\* launches over the command-line tuning values: each absent, 0 or non-zero
GivenValues == {None, 0, 3}
TuningLaunches ==
    {[a |-> WithCams(WithTuning(BaseArgs,
                [exposure |-> e, sensitivity |-> se, saturation |-> sa,
                 contrast |-> co, brightness |-> br, sharpness |-> sh]), cs),
      f |-> {}, d |-> FALSE] :
     e \in GivenValues, se \in GivenValues, sa \in GivenValues, co \in GivenValues,
     br \in GivenValues, sh \in GivenValues, cs \in {{"color"}, {"left", "right"}}}
    \cup {VideoSyncLaunch}

InitTuning == InitWith(TuningLaunches, {{1}})
SpecTuning == InitTuning /\ [][DemoNext]_vars

\* launches over the report selection and the report file, on a video so
\* that the run ends by itself
ReportLaunches ==
    {[a |-> [VideoArgs EXCEPT !.report = r, !.reportFile = TRUE],
      f |-> {"clip.mp4"}, d |-> FALSE] :
     r \in SUBSET {"memory", "temp", "cpu"}}
    \cup {[a |-> [VideoArgs EXCEPT !.report = {"cpu"}, !.reportFile = rf, !.sync = rf],
           f |-> {"clip.mp4"}, d |-> FALSE] : rf \in BOOLEAN}

ReportNext == DemoNext \/ Relaunch(ReportLaunches)
InitReport == InitWith(ReportLaunches, {{1}})
SpecReport == InitReport /\ [][ReportNext]_vars

\* launches of the Qt front end on the camera: with or without a network,
\* the device named on the command line
AppLaunches ==
    {[a |-> [BaseArgs EXCEPT !.useNN = nn, !.deviceId = id], f |-> {}, d |-> FALSE] :
     nn \in BOOLEAN, id \in {1}}

InitApp == InitWith(AppLaunches, {Devices})
SpecApp == InitApp /\ [][AppNext]_vars

\* the main thread keeps running: the for loop of run and what follows it are
\* taken when they can be
SpecSeek ==
    Init /\ [][DemoNext]_vars /\ WF_vars(medianSeek(0)) /\ WF_vars(runPrepare(0))

InitLoop == InitWith(LoopLaunches, {{1}})
SpecLoop == InitLoop /\ [][DemoNext]_vars

\* the demo started either way, run_all on the main thread or behind the Qt
\* front end, on the camera with a network and on a video without one
LifecycleNext ==
    \/ AppNext
    \/ DemoMain
    \/ setup(0)
    \/ runStart(0)
    \/ medianSeek(0)
    \/ runPrepare(0)
    \/ loopIter(0)
    \/ stopClose(0)
    \/ stopRest(0)

LifecycleLaunches ==
    {[a |-> [BaseArgs EXCEPT !.useNN = TRUE, !.deviceId = 1], f |-> {}, d |-> TRUE],
     [a |-> [VideoArgs EXCEPT !.useNN = FALSE], f |-> {"clip.mp4"}, d |-> TRUE]}
InitLifecycle == InitWith(LifecycleLaunches, {Devices})
SpecLifecycle == InitLifecycle /\ [][LifecycleNext]_vars

\* the Qt front end with setup updates made from the GUI; the device sends
\* no results meanwhile
GuiNext ==
    \/ Startup
    \/ AppInit
    \/ appStart
    \/ \E n \in GuiArgs : appUpdateArg(n)
    \/ \E w \in Workers : workerRun(w)
    \/ \E w \in Workers : setup(w)
    \/ \E w \in Workers : runStart(w)
    \/ \E w \in Workers : medianSeek(w)
    \/ \E w \in Workers : runPrepare(w)
    \/ \E w \in Workers : loopIter(w)
    \/ \E w \in Workers : stopClose(w)
    \/ \E w \in Workers : stopRest(w)
    \/ \E d \in Devices : deviceReappear(d)
    \/ \E cont \in {"restart", "exit"} : appStopBegin(cont)
    \/ appWaitForDone
    \/ appTick
    \/ appPollFound
    \/ appPollTimeout
    \/ appExit

GuiLaunches ==
    {[a |-> [BaseArgs EXCEPT !.useNN = TRUE, !.deviceId = 1], f |-> {}, d |-> FALSE]}
InitGui == InitWith(GuiLaunches, {Devices})
SpecGui == InitGui /\ [][GuiNext]_vars

\* trackbars of one name are created and moved, on a backend that calls
\* back on setTrackbarPos and on one that does not
TrackbarNext ==
    \/ \E kind \in {"echo", "silent"} : highguiBackend(kind)
    \/ \E w \in TrackbarWindows : createTrackbar(w)
    \/ \E w \in TrackbarWindows, v \in TrackbarValues : userMove(w, v)

InitTrackbars == InitWith({[a |-> BaseArgs, f |-> {}, d |-> TRUE]}, {Devices})
SpecTrackbars == InitTrackbars /\ [][TrackbarNext]_vars

\* a Demo is constructed and callbacks are registered on it
CallbacksNext ==
    \/ Startup
    \/ DemoMain
    \/ \E passed \in PassedChoices : callSetCallbacks(passed)

CallbackLaunches ==
    {[a |-> BaseArgs, f |-> {}, d |-> d] : d \in BOOLEAN}
InitCallbacks == InitWith(CallbackLaunches, {Devices})
SpecCallbacks == InitCallbacks /\ [][CallbacksNext]_vars

\* ----------------------------------------------------------------- claims
\* where a thread is once Demo.run has passed the given point
PastSetup == {"run", "medianSeek", "runPrepare", "loop", "hostGet", "stop", "stopRest"}
Positioned == {"runPrepare", "loop", "hostGet", "stop", "stopRest", "done"}

\* C4: in video mode, when the video path (the downloaded file's path for an
\* https URL) does not exist, start-up ends in ValueError, no Demo object has
\* been constructed and no device has been opened.
C4_MissingVideoRaises ==
    (~args.useCamera /\ ResolveVideo(args.video) \notin fs)
        => (mainPc \in {"start", "ValueError"} /\ demoMade = 0 /\ deviceOpens = 0)

\* C4 witness: an https URL was replaced by the downloaded path, which is
\* missing, and start-up has raised.
C4_Witness ==
    /\ mainPc = "ValueError"
    /\ args.video = "videos/v.mp4"
    /\ "clip.mp4" \in fs

\* the position of a filter in the fixed list
IndexOf(f) == CHOOSE i \in 1 .. Len(MedianFilterList) : MedianFilterList[i] = f

\* C5: once run has positioned the rotation at the device's filter, after n
\* presses of 'm' the depth median filter is the choice n places after the
\* starting one in the list order, wrapping from the last to the first; so a
\* press moves to the following choice and as many presses as there are
\* choices return to the starting filter.
C5_MedianRotation ==
    (startMedian # "none" /\ pc[0] \in Positioned)
        => depthMedian = MedianFilterList[
               ((IndexOf(startMedian) - 1 + mPresses) % Len(MedianFilterList)) + 1]

\* C5 witness: 'm' was pressed once per choice, starting from a filter in the
\* middle of the list, and the starting filter is active again.
C5_Witness ==
    /\ mPresses = Len(MedianFilterList)
    /\ startMedian = "KERNEL_3x3"
    /\ depthMedian = startMedian
    /\ key = "m"

\* C9: in camera mode an EncodingManager exists exactly when the encode
\* option names at least one stream; run creates its queues, every loop
\* iteration parses them and stop closes it.
C9_EncodingForwarded ==
    (args.useCamera /\ pendingExc[0] = "none")
        => /\ pc[0] \in {"run", "medianSeek", "runPrepare"}
                => encManager = (IF args.encode # {} THEN "created" ELSE "None")
           /\ pc[0] \in {"loop", "stop", "stopRest"}
                => /\ encManager = (IF args.encode # {} THEN "queues" ELSE "None")
                   /\ encParsed = (IF args.encode # {} THEN iter ELSE 0)
           /\ (pc[0] = "done" /\ raised[0] = "none")
                => encManager = (IF args.encode # {} THEN "closed" ELSE "None")

\* C1: no thread is ever waiting inside a queue read of Demo.loop: every
\* iteration completes whatever the sbb, NN-output, nnInput and system-logger
\* queues hold, in camera and in video mode, with or without sync.
C1_NonBlockingReads == \A t \in Threads : pc[t] # "hostGet"

TuningFields == DOMAIN NoTuning

\* the entry a control key is bound to, and the entry it fills when None
KeyField(k) ==
    CASE k \in {"t", "g"} -> "exposure"
      [] k \in {"y", "h"} -> "sensitivity"
      [] k \in {"u", "j"} -> "saturation"
      [] k \in {"i", "k"} -> "contrast"
      [] k \in {"o", "l"} -> "brightness"
      [] k \in {"p", ";"} -> "sharpness"
PairedField(k) ==
    CASE k \in {"t", "g"} -> "sensitivity"
      [] k \in {"y", "h"} -> "exposure"
      [] OTHER -> "none"

\* C6: in an iteration with frame display and camera controls enabled, a
\* control key changes only its own entry of the tuning dictionary (and
\* fills the paired exposure/sensitivity entry when that is None) and pushes
\* the dictionary exactly once to each enabled camera; any other key, or no
\* key, leaves the dictionary unchanged and pushes nothing.
C6_ControlKeys ==
    [][(waitKeys' = waitKeys + 1 /\ displayFrames /\ args.cameraControlls)
        => IF key' \in ControlKeys
           THEN /\ cameraConfig # <<>>
                /\ cameraConfig' # <<>>
                /\ \A f \in TuningFields \ {KeyField(key')} :
                      \/ cameraConfig'[f] = cameraConfig[f]
                      \/ f = PairedField(key') /\ cameraConfig[f] = None
                /\ \A c \in Cams :
                      IF CameraEnabled(args, c)
                      THEN pushes'[c] = [n |-> pushes[c].n + 1, last |-> cameraConfig']
                      ELSE pushes'[c] = pushes[c]
           ELSE cameraConfig' = cameraConfig /\ pushes' = pushes]_vars

\* C10: in camera mode, when at least one tuning value is given on the
\* command line (is not None, 0 included), the dictionary has been pushed to
\* every enabled camera when the first loop iteration is about to start.
C10_TuningPushed ==
    (args.useCamera /\ pc[0] = "loop" /\ iter = 0
       /\ \E f \in TuningFields : TuningOf(args)[f] # None)
        => \A c \in Cams :
              CameraEnabled(args, c) => pushes[c] = [n |-> 1, last |-> TuningOf(args)]

RowCount(f) == Cardinality({i \in 1 .. Len(f) : f[i].kind = "row"})

\* C7: the report file starts with its one header row and every other line
\* is a data row, over any number of log entries and of runs appending to
\* the file; when a report file is requested each system-log entry read
\* adds exactly one data row and makes exactly one onReport call, and
\* nothing else writes to the file.
C7_HeaderOnce ==
    /\ [](reportFile # <<>>
            => /\ reportFile[1].kind = "header"
               /\ \A i \in 2 .. Len(reportFile) : reportFile[i].kind = "row")
    /\ [][(args.reportFile /\ logsRead' > logsRead)
            => /\ RowCount(reportFile') - RowCount(reportFile) = logsRead' - logsRead
               /\ onReportCalls' - onReportCalls = logsRead' - logsRead]_vars
    /\ [][reportFile' # reportFile => (args.reportFile /\ logsRead' > logsRead)]_vars

\* C7 witness: a second run has appended two rows to a file that the first
\* run left with a header and two rows.
C7_Witness ==
    /\ runs = 2
    /\ logsRead = 2
    /\ onReportCalls = 2
    /\ Len(reportFile) = 5

\* C8: every data row of the report file has exactly the columns of the
\* file's header row, in the same order, also when runs with different
\* report selections append to the same file.
C8_RowsMatchHeader ==
    \A i \in 1 .. Len(reportFile) : reportFile[i].cells = reportFile[1].cells

\* C2: at most one worker is executing the shared Demo instance: a worker
\* is past the start of Demo.setup only when every other worker has not
\* started it or has completely finished Demo.stop.
C2_OneWorkerInDemo == Cardinality({w \in Workers : pc[w] \in PastSetup}) <= 1

\* C3: App.stop returns normally only when the device read at its start was
\* seen among the available devices inside the polling window; when the
\* window ends first it raises RuntimeError, and restartDemo then starts no
\* new worker.
C3_StopNeedsDevice ==
    /\ appPc = "stopReturned" => (observed /\ elapsed < Window)
    /\ appPc = "exited" => observed
    /\ (appPc = "gui" /\ stoppedWorker # 0) => observed
    /\ appExc = "RuntimeError"
         => (~observed /\ elapsed >= Window /\ worker = stoppedWorker
             /\ appPc = "raised")

\* C3 witness: restartDemo's stop has timed out with another device listed
\* all along, and no worker was started after the one it signalled.
C3_Witness ==
    /\ appExc = "RuntimeError"
    /\ stopCont = "restart"
    /\ available # {}
    /\ currentMxid \notin available
    /\ worker = 1

\* the last call that passed callback n with a value, 0 if no call did
LastPassed(n, calls) ==
    Max(0, CHOOSE k \in 0 .. Len(calls) :
             /\ k = 0 \/ n \in calls[k]
             /\ \A j \in (k + 1) .. Len(calls) : n \notin calls[j])

\* C11: a setCallbacks call replaces exactly the callbacks passed with a
\* value other than None and leaves the others as they were; so after any
\* sequence of calls each callback is the last value passed for it, or the
\* constructor's value if none was passed.
C11_SetCallbacks ==
    /\ [](\A n \in CallbackNames : callbacks[n] = LastPassed(n, cbCalls))
    /\ [][Len(cbCalls') = Len(cbCalls) + 1
            => \A n \in CallbackNames :
                 callbacks'[n] = IF n \in cbCalls'[Len(cbCalls')]
                                 THEN Len(cbCalls') ELSE callbacks[n]]_vars

\* C11 witness: after two calls one callback is still the constructor's, one
\* is what the first call passed and the second left alone, and one is what
\* the second call passed over the first.
C11_Witness ==
    /\ Len(cbCalls) = 2
    /\ callbacks["onNn"] = 0
    /\ callbacks["onSetup"] = 1 /\ "onSetup" \in cbCalls[1]
    /\ callbacks["onIter"] = 2 /\ "onIter" \in cbCalls[1] \cap cbCalls[2]

\* what Demo.run can raise inside its try block
LoopExceptions == {"StopIteration", "AttributeError"}

\* the try block of Demo.run was entered: shouldRun was consulted
Entered(log) == \E i \in DOMAIN log : log[i] = "shouldRun"

\* the exception of the log that the except clause of run does not catch
Propagated(log) ==
    IF \E i \in DOMAIN log : log[i] \in LoopExceptions \ {"StopIteration"}
    THEN log[CHOOSE i \in DOMAIN log : log[i] \in LoopExceptions \ {"StopIteration"}]
    ELSE "none"

\* what may directly follow a step in the order the claim gives
FollowedBy(step) ==
    CASE step = "onSetup" -> {"shouldRun"}
      [] step = "shouldRun" -> {"onIter", "close"}
      [] step = "onIter" -> {"loop"}
      [] step = "loop" -> {"shouldRun"} \cup LoopExceptions
      [] step \in LoopExceptions -> {"close"}
      [] step = "close" -> {"onTeardown"}
      [] OTHER -> {}

\* C12: in every thread's run, onSetup comes once and first; each loop call
\* directly follows one shouldRun and one onIter; after the loop was entered
\* the device is closed once, right after shouldRun gave false or an exception
\* left loop, and onTeardown is the step after it and the last; when run has
\* ended that way, StopIteration is not raised to the caller and any other
\* exception of the loop is, with no further iteration.
C12_Lifecycle ==
    \A t \in Threads :
        LET log == lifecycle[t]
        IN  /\ log # <<>> => log[1] = "onSetup"
            /\ \A i \in DOMAIN log :
                  /\ log[i] = "onSetup" => i = 1
                  /\ i < Len(log) => log[i + 1] \in FollowedBy(log[i])
            /\ (pc[t] = "done" /\ Entered(log))
                  => /\ Len(log) > 2
                     /\ log[Len(log)] = "onTeardown"
                     /\ log[Len(log) - 1] = "close"
                     /\ raised[t] = Propagated(log)
            /\ (pc[t] \in {"loop", "hostGet"}) => log[Len(log)] \in {"onSetup", "loop"}
            /\ pc[t] = "stop" => log[Len(log)] \in {"shouldRun"} \cup LoopExceptions
            /\ pc[t] = "stopRest" => log[Len(log)] = "close"

\* C12 witness: a run on the main thread made two full iterations, the 'q'
\* key raised StopIteration in the third, stop ran and run ended normally.
C12_Witness ==
    /\ pc[0] = "done"
    /\ raised[0] = "none"
    /\ Len(lifecycle[0]) = 13
    /\ lifecycle[0][11] = "StopIteration"
    /\ lifecycle[0][13] = "onTeardown"

\* C13: when the Demo.setup of a worker started by a restart builds the
\* pipeline, for every argument that was updated through the GUI before that
\* restart the value setup passes to the SDK is the one for the value last
\* set through the GUI.
C13_RestartUsesGuiValues ==
    [][\A w \in Workers :
         (pc[w] = "setup" /\ pc'[w] = "run")
            => \A n \in GuiArgs :
                 (guiSet[n] # None /\ guiSetAt[n] < w /\ guiSetAt[n] > 0)
                     => built'[n] = PassesFor([args EXCEPT ![n] = guiSet[n]])[n]]_vars

\* the exit signal has been emitted to worker w: App.stop emits it to the
\* latest worker, and a newer worker is only started after a stop
Terminated(w) == w <= stoppedWorker

\* C14: once the exit signal has been emitted to a worker its running flag is
\* false and stays false, and when its loop next consults shouldRun it gets
\* false and goes to Demo.stop without starting another iteration.
C14_ExitSignalStops ==
    /\ [](\A w \in Workers : Terminated(w) => ~running[w])
    /\ [][\A w \in Workers :
            (Terminated(w) /\ pc[w] = "loop" /\ lifecycle'[w] # lifecycle[w])
               => (pc'[w] = "stop"
                   /\ lifecycle'[w] = Append(lifecycle[w], "shouldRun"))]_vars

\* the range and the default of each tuning value
TuningRange ==
    [exposure |-> 1 .. 33000, sensitivity |-> 100 .. 1600, saturation |-> -10 .. 10,
     contrast |-> -10 .. 10, brightness |-> -10 .. 10, sharpness |-> 0 .. 4]
TuningDefault ==
    [exposure |-> 10000, sensitivity |-> 800, saturation |-> 0, contrast |-> 0,
     brightness |-> 0, sharpness |-> 0]

\* C15: with every tuning value given at the start None or inside its range,
\* every value of the dictionary that is not None is inside its range after
\* any control keys; a control key pressed on a None value sets the default
\* instead of stepping, and after an exposure or sensitivity key both of
\* them are set.
C15_TuningInRange ==
    /\ [](cameraConfig # <<>>
            => \A f \in TuningFields :
                 cameraConfig[f] # None => cameraConfig[f] \in TuningRange[f])
    /\ [][(waitKeys' = waitKeys + 1 /\ displayFrames /\ args.cameraControlls
            /\ key' \in ControlKeys /\ cameraConfig # <<>>)
           => /\ cameraConfig[KeyField(key')] = None
                   => cameraConfig'[KeyField(key')] = TuningDefault[KeyField(key')]
              /\ key' \in {"t", "g", "y", "h"}
                   => (cameraConfig'.exposure # None /\ cameraConfig'.sensitivity # None)]_vars

\* C15 witness: three control keys were pressed: 't' stopped the exposure at
\* its upper limit, 'y' the sensitivity at its upper limit, and 'o' set the
\* brightness, which was None, to its default.
C15_Witness ==
    /\ cameraConfig # <<>>
    /\ args.cameraExposure = 32800 /\ cameraConfig.exposure = 33000
    /\ args.cameraSensitivity = 1550 /\ cameraConfig.sensitivity = 1600
    /\ args.cameraBrightness = None /\ cameraConfig.brightness = 0
    /\ waitKeys = 3

\* the windows the trackbar name is registered in
Registered == {tbWindows[i] : i \in DOMAIN tbWindows}

\* C16: once the callbacks of a user move to value v have finished, the
\* value recorded in Trackbars.instances for the name is v for every window
\* it is registered in, the moved one included, and every window shows v.
C16_InstancesFollowMove ==
    tbMoves > 0
        => \A w \in Registered : tbInstances[w] = tbMoved /\ tbPos[w] = tbMoved

\* C17: the value last passed to the update callback is the position the
\* trackbar shows, or no call was made and the position is the default; and
\* every user move that changes the value calls the update callback exactly
\* once.
C17_CallbackFollowsPosition ==
    /\ [](\A w \in Registered :
            \/ tbCalls = 0 /\ tbPos[w] = TrackbarDefault
            \/ tbCalls > 0 /\ tbPos[w] = tbPassed)
    /\ [][tbMoves' = tbMoves + 1 => tbCalls' = tbCalls + 1]_vars

\* C18: the for loop of Demo.run over the endless rotation ends for every
\* median filter the device can have, so run goes on to create the queues,
\* call onSetup and enter the polling loop.
C18_MedianSeekEnds ==
    (pc[0] = "medianSeek") ~> (pc[0] = "loop" /\ startMedian = depthMedian)

\* C18 witness: the device's filter is the last of the list, the for loop
\* has gone through the whole list to find it and run is at its polling loop.
C18_Witness ==
    /\ pc[0] = "loop"
    /\ iter = 0
    /\ startMedian = MedianFilterList[Len(MedianFilterList)]
    /\ medianIdx = 1

====
